---- MODULE Spec2Model ----
(***************************************************************************)
(* Verification model of the dialects repository:                          *)
(*   - the embedding extraction pipeline, scripts/03_extract_embeddings_new *)
(*     (main, append_csv_row, safe_move_to_corrupted), specification Spec;  *)
(*   - the narration-trimming preprocessor, scripts/02_preprocess_audio     *)
(*     (detect_speech_start, preprocess), specification SpecPre.            *)
(***************************************************************************)
EXTENDS Integers, Sequences, FiniteSets, TLC

VARIABLES
    \* ---- file system seen by 03_extract_embeddings_new.py ----
    corpus,          \* .wav files under PROCESSED_AUDIO_DIR, each <<dir, stem>>
    txt_files,       \* same-stem .txt siblings under PROCESSED_AUDIO_DIR
    corrupt,         \* file -> the error torchaudio raises decoding it, <<>> if none
    embeddings,      \* EMBEDDINGS_DIR: stem -> "absent" | "partial" | "complete"
    index_csv,       \* EMBEDDINGS_INDEX_CSV: [exists, rows]
    failures_csv,    \* EMBEDDING_FAILURES_CSV: [exists, rows]
    corrupted_dir,   \* CORRUPTED_DIR: file name (stem) -> the source file it holds
    \* ---- main() of 03_extract_embeddings_new.py ----
    pc,              \* position of main()
    wav_files,       \* the files of the for loop not reached yet
    wav_path,        \* the file of the current iteration
    reason,          \* str(e) of the exception in flight
    created_utc,     \* the run's timestamp (the number of the run)
    processed_count,
    skipped_count,
    failed_count,
    \* ---- observation of the current run (no code reads these) ----
    discovered,      \* the files rglob returned at the start of the run
    outcome,         \* file -> which counter the run incremented for it
    loaded,          \* files load_audio was called on in this run
    extracted,       \* files extract_embedding was called on in this run
    written,         \* stems np.save created a file for in this run
    envFault,        \* an extractor, disk or move fault happened in this run
    faults,          \* the faults of the environment so far, over all runs
    prev,            \* the previous run: [pc, embeddings, rows, outcome, discovered]
    \* ---- file system seen by 02_preprocess_audio.py ----
    p_tree,          \* the tree of input_dir: <<dir, stem, ext>> -> the file there
    p_bad,           \* the .mp3 files pydub cannot decode
    p_out,           \* output_dir: the stems of the .wav files written
    \* ---- preprocess() of 02_preprocess_audio.py ----
    p_pc,            \* position of preprocess()
    p_dirs,          \* the directories os.walk has still to list
    p_files,         \* the names of the current listing not handled yet
    p_runs,          \* runs started so far
    p_last,          \* observation: [stem, error, dir, path] of the last file handled
    p_cur,           \* the directory of the current listing
    \* ---- one call of detect_speech_start of 02_preprocess_audio.py ----
    o_args,          \* <<initial_skip_ms, max_skip_ms, step_ms>>
    o_vad,           \* skip_ms -> what get_speech_timestamps finds on the clip cut there
    o_res,           \* what the call returned or raised
    o_pc,            \* position of the call
    \* ---- metadata enrichment of 03_extract_embeddings_new.py ----
    m_doc,           \* what is at DIALECTS_METADATA_JSON
    m_table,         \* meta_by_stem
    m_stem,          \* the stem of the file being indexed
    m_fields,        \* continent, country, speaker, audio_url of its success row
    m_pc             \* position of main() with respect to the metadata

pipeVars == <<corpus, txt_files, corrupt, embeddings, index_csv, failures_csv,
              corrupted_dir, pc, wav_files, wav_path, reason, created_utc,
              processed_count, skipped_count, failed_count,
              discovered, outcome, loaded, extracted, written, envFault, faults, prev>>

preVars == <<p_tree, p_bad, p_out, p_pc, p_dirs, p_files, p_runs, p_last, p_cur>>

onsetVars == <<o_args, o_vad, o_res, o_pc>>

metaVars == <<m_doc, m_table, m_stem, m_fields, m_pc>>

auxVars == <<onsetVars, metaVars>>

vars == <<pipeVars, preVars, auxVars>>

----------------------------------------------------------------------------
\* Bounds of the model.
MaxFiles == 2        \* .wav files in the corpus
MaxRuns == 2         \* runs of main() over the same file system
MaxFaults == 2       \* extractor, disk, move and interrupt faults over all runs
MaxPreRuns == 2      \* runs of preprocess() over the same input directory
MaxEntries == 2      \* entries of the metadata array

\* The corpus directory tree: the root and one subdirectory (rglob is recursive).
Stems == {"ffmpeg_y", "x"}
AllPaths == {<<"", "ffmpeg_y">>, <<"", "x">>, <<"sub", "ffmpeg_y">>, <<"sub", "x">>}
NoPath == <<"", "">>

Stem(p) == p[2]
Name(p) == p[2]      \* the file name is stem + ".wav": one name per stem

----------------------------------------------------------------------------
\* sorted(PROCESSED_AUDIO_DIR.rglob("*.wav")): paths compare by their parts.
PartRank(s) == CASE s = "ffmpeg_y" -> 1 [] s = "sub" -> 2 [] s = "x" -> 3 [] OTHER -> 0
Parts(p) == IF p[1] = "" THEN <<PartRank(p[2])>> ELSE <<PartRank(p[1]), PartRank(p[2])>>
SeqLess(a, b) ==
    \E i \in 1..Len(a) :
        /\ \A j \in 1..(i - 1) : j <= Len(b) /\ a[j] = b[j]
        /\ \/ (i <= Len(b) /\ a[i] < b[i])
    \/ (Len(a) < Len(b) /\ \A j \in 1..Len(a) : a[j] = b[j])
PathLess(p, q) == SeqLess(Parts(p), Parts(q))

RECURSIVE Sorted(_)
Sorted(S) ==
    IF S = {} THEN <<>>
    ELSE LET m == CHOOSE p \in S : \A q \in S \ {p} : PathLess(p, q)
         IN <<m>> \o Sorted(S \ {m})

----------------------------------------------------------------------------
\* str(e) is a sequence of text fragments; `marker in reason` searches the
\* fragments. The one file name of the model that contains a marker is
\* ffmpeg_y (the text of an OSError ends with the path it failed on).
TextContains(frag, marker) ==
    \/ frag = marker
    \/ (frag = "ffmpeg_y" /\ marker = "ffmpeg")
Contains(msg, marker) == \E i \in 1..Len(msg) : TextContains(msg[i], marker)

\* line 264
IsDecodeClass(msg) ==
    \/ Contains(msg, "Error opening input")
    \/ Contains(msg, "Decoding failed")
    \/ Contains(msg, "ffmpeg")

\* What the collaborators raise.
LoadErrors == {<<"Error opening input">>, <<"Decoding failed">>, <<"Format not recognised">>}
ExtractErrors == {<<"inference failed">>}
\* OSError carries the file name it failed on.
SaveErrors(stem) == {<<"No space left on device", stem>>}
IndexErrors == {<<"No space left on device", "embeddings_index.csv">>}

----------------------------------------------------------------------------
\* Slips of the existence test: it asks for a finished artifact; it is left out.
EmbeddingExistsComplete(stem) == embeddings[stem] = "complete"
EmbeddingNeverExists(stem) == FALSE

\* line 212
EmbeddingExists(stem) == embeddings[stem] # "absent"

NoFile == [exists |-> FALSE, rows |-> <<>>]
HeaderRow(h) == [kind |-> "header", path |-> NoPath, info |-> <<h>>, utc |-> 0]
DataRow(p, info, utc) == [kind |-> "data", path |-> p, info |-> info, utc |-> utc]

\* append_csv_row
AppendCsvRow(csv, header, row) ==
    IF ~csv.exists
    THEN [exists |-> TRUE, rows |-> <<HeaderRow(header), row>>]
    ELSE [exists |-> TRUE, rows |-> Append(csv.rows, row)]

\* append_csv_row raising: open (line 142) failed and nothing changed, or open
\* created the file and the write of lines 143-148 failed, leaving it without
\* the rows of this call.
AppendCsvRowFailed(csv, opened) ==
    IF opened THEN [exists |-> TRUE, rows |-> csv.rows] ELSE csv

DataRows(csv) == SelectSeq(csv.rows, LAMBDA r : r.kind = "data")

----------------------------------------------------------------------------
\* 02_preprocess_audio.py

\* detect_speech_start, line 41 (defaults), line 59 (threshold), line 22 (rate).
InitialSkipMs == 13000
MaxSkipMs == 20000
StepMs == 2000
MinAcceptedOffsetMs == 1000
SampleRate == 16000

\* get_speech_timestamps on the clip cut at skip_ms: the start of the first
\* segment in samples, or NoSegments for an empty list.
NoSegments == -1
VadStarts == {NoSegments, 3200, 16000, 24000}
ScanSkips == {t \in InitialSkipMs..MaxSkipMs : (t - InitialSkipMs) % StepMs = 0}
VadResponses == [ScanSkips -> VadStarts]

\* Slips of the scan: the last window is left out; an offset of exactly
\* 1000 ms is accepted.
InRangeStrict(skip_ms, max_skip_ms) == skip_ms < max_skip_ms
AcceptsAtLeast(start) == start # NoSegments /\ start * 1000 >= MinAcceptedOffsetMs * SampleRate

\* line 46: while skip_ms <= max_skip_ms
InRange(skip_ms, max_skip_ms) == skip_ms <= max_skip_ms

\* lines 53-59: if segments, and segments[0]['start'] / sr * 1000 > 1000
Accepts(start) == start # NoSegments /\ start * 1000 > MinAcceptedOffsetMs * SampleRate

\* detect_speech_start, lines 44-67. found = FALSE is the ValueError of line 67;
\* scanned lists the skip values examined.
RECURSIVE ScanWith(_, _, _, _, _)
ScanWith(vad, skip_ms, max_skip_ms, step_ms, scanned) ==
    IF ~InRange(skip_ms, max_skip_ms)
    THEN [found |-> FALSE, start_ms |-> 0, scanned |-> scanned]
    ELSE LET start == vad[skip_ms]
             relative_start_ms == (start * 1000) \div SampleRate
         IN IF Accepts(start)
            THEN [found |-> TRUE, start_ms |-> skip_ms + relative_start_ms,
                  scanned |-> Append(scanned, skip_ms)]
            ELSE ScanWith(vad, skip_ms + step_ms, max_skip_ms, step_ms,
                          Append(scanned, skip_ms))

\* the scan with the default arguments of line 41
Scan(vad, skip_ms, scanned) == ScanWith(vad, skip_ms, MaxSkipMs, StepMs, scanned)

DetectSpeechStart(vad) == Scan(vad, InitialSkipMs, <<>>)

\* The tree of input_dir: main() puts corrupted_dir inside it (line 107).
InputDir == "in"
SubDir == "in/sub"
CorruptedDir == "in/corrupted"
PDirs == {InputDir, SubDir, CorruptedDir}
PStems == {"a", "b"}
PPaths == PDirs \X PStems \X {"mp3", "txt"}
NoContent == "none"
NoLast == [stem |-> "", error |-> "none", dir |-> "", path |-> <<"", "", "">>]

\* os.listdir order is arbitrary.
Orders(S) == {f \in [1..Cardinality(S) -> S] : \A i, j \in 1..Cardinality(S) :
                                                  i # j => f[i] # f[j]}
FilesIn(dir) == {<<q[2], q[3]>> : q \in {r \in PPaths : r[1] = dir /\ p_tree[r] # NoContent}}

\* shutil.move(src, dst): the file at src replaces what is at dst.
Move(tree, src, dst) == [tree EXCEPT ![dst] = tree[src], ![src] = NoContent]

\* lines 91-98: the file goes to corrupted_dir, and its .txt sibling if there is one.
QuarantineFile(tree, stem) ==
    LET t1 == Move(tree, <<InputDir, stem, "mp3">>, <<CorruptedDir, stem, "mp3">>)
    IN IF t1[<<InputDir, stem, "txt">>] # NoContent
       THEN Move(t1, <<InputDir, stem, "txt">>, <<CorruptedDir, stem, "txt">>)
       ELSE t1

PreInit ==
    /\ \E mp3 \in (SUBSET {<<InputDir, "a">>, <<InputDir, "b">>, <<SubDir, "a">>}) \ {{}},
          txt \in SUBSET {<<InputDir, "a">>} :
          p_tree = [q \in PPaths |->
                      IF \/ (q[3] = "mp3" /\ <<q[1], q[2]>> \in mp3)
                         \/ (q[3] = "txt" /\ <<q[1], q[2]>> \in txt)
                      THEN q[1] ELSE NoContent]
    /\ p_bad \in SUBSET {<<q[1], q[2]>> : q \in {r \in PPaths : r[3] = "mp3" /\ p_tree[r] # NoContent}}
    /\ p_out = {}
    /\ p_pc = "idle"
    /\ p_dirs = <<>>
    /\ p_files = <<>>
    /\ p_runs = 0
    /\ p_last = NoLast
    /\ p_cur = ""

\* The preprocessor is not running.
PreFrozen ==
    /\ p_tree = [q \in PPaths |-> NoContent]
    /\ p_bad = {}
    /\ p_out = {}
    /\ p_pc = "idle"
    /\ p_dirs = <<>>
    /\ p_files = <<>>
    /\ p_runs = 0
    /\ p_last = NoLast
    /\ p_cur = ""

\* main, lines 100-109, and preprocess, lines 71-75.
PreprocessStart ==
    /\ p_pc \in {"idle", "done", "crashed"}
    /\ p_runs < MaxPreRuns
    /\ p_runs' = p_runs + 1
    /\ p_pc' = "walk"
    /\ p_dirs' = <<InputDir>>
    /\ p_files' = <<>>
    /\ p_last' = NoLast
    /\ p_cur' = ""
    /\ UNCHANGED <<p_tree, p_bad, p_out>>
    /\ UNCHANGED <<pipeVars, auxVars>>

\* line 75: os.walk lists the next directory (top-down: a directory is listed
\* when it is reached, the subdirectories of input_dir after its own files).
WalkNextDir ==
    /\ p_pc = "walk"
    /\ p_files = <<>>
    /\ p_dirs # <<>>
    /\ \E files \in Orders(FilesIn(Head(p_dirs))) : p_files' = files
    /\ \E subs \in Orders(IF Head(p_dirs) = InputDir THEN {SubDir, CorruptedDir} ELSE {}) :
          p_dirs' = subs \o Tail(p_dirs)
    /\ p_cur' = Head(p_dirs)
    /\ UNCHANGED <<p_tree, p_bad, p_out, p_pc, p_runs, p_last>>
    /\ UNCHANGED <<pipeVars, auxVars>>

\* the walk is over: preprocess returns.
WalkEnd ==
    /\ p_pc = "walk"
    /\ p_files = <<>>
    /\ p_dirs = <<>>
    /\ p_pc' = "done"
    /\ UNCHANGED <<p_tree, p_bad, p_out, p_dirs, p_files, p_runs, p_last, p_cur>>
    /\ UNCHANGED <<pipeVars, auxVars>>

\* lines 77-78: a name that does not end in .mp3 is passed over.
SkipFile ==
    /\ p_pc = "walk"
    /\ p_files # <<>>
    /\ Head(p_files)[2] # "mp3"
    /\ p_files' = Tail(p_files)
    /\ UNCHANGED <<p_tree, p_bad, p_out, p_pc, p_dirs, p_runs, p_last, p_cur>>
    /\ UNCHANGED <<pipeVars, auxVars>>

\* lines 80-98: one .mp3 name. file_path is input_dir/file whatever directory
\* the name was listed in; every exception of the try block is handled by
\* moving file_path to corrupted_dir, and a failing move is not handled.
ProcessFile ==
    /\ p_pc = "walk"
    /\ p_files # <<>>
    /\ Head(p_files)[2] = "mp3"
    /\ p_files' = Tail(p_files)
    /\ LET stem == Head(p_files)[1]
           file_path == <<InputDir, stem, "mp3">>
       IN IF p_tree[file_path] = NoContent
          THEN /\ p_last' = [stem |-> stem, error |-> "notfound", dir |-> p_cur,
                            path |-> file_path]
               /\ p_pc' = "crashed"
               /\ UNCHANGED <<p_tree, p_out>>
          ELSE IF <<p_tree[file_path], stem>> \in p_bad
          THEN /\ p_last' = [stem |-> stem, error |-> "decode", dir |-> p_cur,
                            path |-> file_path]
               /\ p_tree' = QuarantineFile(p_tree, stem)
               /\ UNCHANGED <<p_out, p_pc>>
          ELSE \E vad \in VadResponses, exported \in BOOLEAN :
               IF ~DetectSpeechStart(vad).found
               THEN /\ p_last' = [stem |-> stem, error |-> "nospeech", dir |-> p_cur,
                            path |-> file_path]
                    /\ p_tree' = QuarantineFile(p_tree, stem)
                    /\ UNCHANGED <<p_out, p_pc>>
               ELSE IF exported
               THEN /\ p_last' = [stem |-> stem, error |-> "none", dir |-> p_cur,
                            path |-> file_path]
                    /\ p_out' = p_out \cup {stem}
                    /\ UNCHANGED <<p_tree, p_pc>>
               ELSE /\ p_last' = [stem |-> stem, error |-> "export", dir |-> p_cur,
                            path |-> file_path]
                    /\ p_tree' = QuarantineFile(p_tree, stem)
                    /\ UNCHANGED <<p_out, p_pc>>
    /\ UNCHANGED <<p_bad, p_dirs, p_runs, p_cur>>
    /\ UNCHANGED <<pipeVars, auxVars>>

----------------------------------------------------------------------------
\* One call of detect_speech_start(audio_segment, initial_skip_ms, max_skip_ms,
\* step_ms), line 41: the defaults, a start from which max_skip_ms is reached,
\* a wider step, and a start beyond max_skip_ms.
OnsetCalls == {<<InitialSkipMs, MaxSkipMs, StepMs>>,
               <<InitialSkipMs + 1000, MaxSkipMs, StepMs>>,
               <<InitialSkipMs - 1000, MaxSkipMs, 2 * StepMs>>,
               <<MaxSkipMs + 1000, MaxSkipMs, StepMs>>}

\* the cuts audio_segment[skip_ms:] the call can ask the detector about
Windows(args) == {t \in args[1]..args[2] : (t - args[1]) % args[3] = 0}

NoResult == [found |-> FALSE, start_ms |-> 0, scanned |-> <<>>]

OnsetInit ==
    /\ o_args \in OnsetCalls
    /\ o_vad \in [Windows(o_args) -> VadStarts]
    /\ o_res = NoResult
    /\ o_pc = "call"

\* No call of detect_speech_start is under observation.
OnsetFrozen ==
    /\ o_args = <<InitialSkipMs, MaxSkipMs, StepMs>>
    /\ o_vad = [t \in Windows(o_args) |-> NoSegments]
    /\ o_res = NoResult
    /\ o_pc = "idle"

\* lines 41-67: the call runs to its return (line 57) or its raise (line 67).
DetectSpeechStartCall ==
    /\ o_pc = "call"
    /\ o_res' = ScanWith(o_vad, o_args[1], o_args[2], o_args[3], <<>>)
    /\ o_pc' = IF o_res'.found THEN "returned" ELSE "raised"
    /\ UNCHANGED <<o_args, o_vad>>
    /\ UNCHANGED <<pipeVars, preVars, metaVars>>

----------------------------------------------------------------------------
\* The optional metadata of 03_extract_embeddings_new.py.

MetaFields == {"continent", "country", "speaker", "audio_url"}
MetaStems == {"x", "y"}
WavStems == MetaStems \cup {"z"}     \* stems of the .wav files looked up

\* The JSON value under "local_audio_path": the key is missing, "" or null
\* (falsy), a number other than 0 (truthy, not a string), or a path string.
NoParts == <<"", "", "">>
LocalPaths ==
    {[kind |-> k, parts |-> NoParts] : k \in {"missing", "empty", "null", "number"}}
    \cup {[kind |-> "string", parts |-> <<"data/raw", st, "mp3">>] : st \in MetaStems}

\* The entries of the array: objects (has: the provenance keys present) and
\* values that are not objects.
MetaItems ==
    {[type |-> "object", local_audio_path |-> lp, has |-> h] :
        lp \in LocalPaths, h \in {{}, {"continent"}, MetaFields}}
    \cup {[type |-> t, local_audio_path |-> [kind |-> "missing", parts |-> NoParts],
           has |-> {}] : t \in {"string", "number"}}
NoItem == [type |-> "none", local_audio_path |-> [kind |-> "missing", parts |-> NoParts],
           has |-> {}]

\* What is at the metadata path: nothing, text json.loads rejects, a JSON
\* value that is not an array, or an array.
MetaDocs ==
    {[kind |-> k, items |-> <<>>] : k \in {"absent", "unparsable", "object"}}
    \cup {[kind |-> "list", items |-> it] :
            it \in UNION {[1..n -> MetaItems] : n \in 0..MaxEntries}}

EmptyTable == [st \in WavStems |-> NoItem]

\* Path(local_path).stem
PathStem(parts) == parts[2]

\* lines 68-77: the loop over the entries. item.get raises AttributeError on
\* an entry that is not an object and Path(local_path) raises TypeError on a
\* truthy value that is not a string; neither is inside a try.
RECURSIVE BuildByStem(_, _)
BuildByStem(items, by_stem) ==
    IF items = <<>> THEN [raised |-> FALSE, by_stem |-> by_stem]
    ELSE LET item == Head(items)
         IN IF item.type # "object" THEN [raised |-> TRUE, by_stem |-> by_stem]
            ELSE LET local_path == item.local_audio_path
                 IN IF local_path.kind \in {"missing", "empty", "null"}
                    THEN BuildByStem(Tail(items), by_stem)
                    ELSE IF local_path.kind # "string"
                    THEN [raised |-> TRUE, by_stem |-> by_stem]
                    ELSE LET stem == PathStem(local_path.parts)
                         IN IF stem = ""
                            THEN BuildByStem(Tail(items), by_stem)
                            ELSE BuildByStem(Tail(items), [by_stem EXCEPT ![stem] = item])

\* load_optional_metadata, lines 55-78
LoadOptionalMetadata(doc) ==
    IF doc.kind = "absent" THEN [raised |-> FALSE, by_stem |-> EmptyTable]
    ELSE IF doc.kind = "unparsable" THEN [raised |-> FALSE, by_stem |-> EmptyTable]
    ELSE BuildByStem(IF doc.kind = "list" THEN doc.items ELSE <<>>, EmptyTable)

NoFields == [f \in MetaFields |-> ""]

MetaInit ==
    /\ m_doc \in MetaDocs
    /\ m_table = EmptyTable
    /\ m_stem = ""
    /\ m_fields = NoFields
    /\ m_pc = "start"

\* The metadata is not under observation.
MetaFrozen ==
    /\ m_doc = [kind |-> "absent", items |-> <<>>]
    /\ m_table = EmptyTable
    /\ m_stem = ""
    /\ m_fields = NoFields
    /\ m_pc = "idle"

\* main, line 167: an exception of load_optional_metadata leaves main().
MetaLoad ==
    /\ m_pc = "start"
    /\ LET r == LoadOptionalMetadata(m_doc)
       IN /\ m_table' = r.by_stem
          /\ m_pc' = IF r.raised THEN "crashed" ELSE "loaded"
    /\ UNCHANGED <<m_doc, m_stem, m_fields>>
    /\ UNCHANGED <<pipeVars, preVars, onsetVars>>

\* main, lines 227-232: the provenance fields of the success row of one file.
MetaEnrich ==
    /\ m_pc \in {"loaded", "enriched"}
    /\ \E stem \in WavStems :
        /\ m_stem' = stem
        /\ m_fields' = [f \in MetaFields |->
                          IF m_table[stem] # NoItem /\ f \in m_table[stem].has
                          THEN f ELSE ""]
    /\ m_pc' = "enriched"
    /\ UNCHANGED <<m_doc, m_table>>
    /\ UNCHANGED <<pipeVars, preVars, onsetVars>>

----------------------------------------------------------------------------
\* 03_extract_embeddings_new.py

NoOutcome == [p \in AllPaths |-> "none"]

PipeInit ==
    /\ corpus \in {S \in SUBSET AllPaths : S # {} /\ Cardinality(S) <= MaxFiles}
    /\ txt_files \in {T \in SUBSET corpus : Cardinality(T) <= 1}
    /\ corrupt \in {c \in [AllPaths -> {<<>>} \cup LoadErrors] :
                        \A p \in AllPaths \ corpus : c[p] = <<>>}
    /\ embeddings = [s \in Stems |-> "absent"]
    /\ index_csv = NoFile
    /\ failures_csv = NoFile
    /\ corrupted_dir = [s \in Stems |-> NoPath]
    /\ pc = "idle"
    /\ wav_files = <<>>
    /\ wav_path = NoPath
    /\ reason = <<>>
    /\ created_utc = 0
    /\ processed_count = 0
    /\ skipped_count = 0
    /\ failed_count = 0
    /\ discovered = {}
    /\ outcome = NoOutcome
    /\ loaded = {}
    /\ extracted = {}
    /\ written = {}
    /\ envFault = FALSE
    /\ faults = 0
    /\ prev = [pc |-> "idle", embeddings |-> embeddings, rows |-> 0,
               outcome |-> NoOutcome, discovered |-> {}]

fsVars == <<corpus, txt_files, corrupt, embeddings, index_csv, failures_csv, corrupted_dir>>
countVars == <<processed_count, skipped_count, failed_count>>

Ended == {"done", "returned", "aborted", "killed"}

\* The environment can still fail.
CanFault == faults < MaxFaults

\* main, lines 163-205: a run starts; only a finished process can be started again.
StartRun ==
    /\ pc \in {"idle"} \cup Ended
    /\ created_utc < MaxRuns
    /\ created_utc' = created_utc + 1
    /\ wav_files' = Sorted(corpus)
    /\ pc' = IF corpus = {} THEN "returned" ELSE "loop"
    /\ wav_path' = NoPath
    /\ reason' = <<>>
    /\ processed_count' = 0
    /\ skipped_count' = 0
    /\ failed_count' = 0
    /\ discovered' = corpus
    /\ outcome' = NoOutcome
    /\ loaded' = {}
    /\ extracted' = {}
    /\ written' = {}
    /\ envFault' = FALSE
    /\ prev' = [pc |-> pc, embeddings |-> embeddings, rows |-> Len(DataRows(index_csv)),
                outcome |-> outcome, discovered |-> discovered]
    /\ UNCHANGED <<fsVars, faults>>
    /\ UNCHANGED <<preVars, auxVars>>

\* lines 207-214: the loop takes the next file and skips it if its artifact exists.
LoopNext ==
    /\ pc = "loop"
    /\ wav_files # <<>>
    /\ wav_path' = Head(wav_files)
    /\ wav_files' = Tail(wav_files)
    /\ IF EmbeddingExists(Stem(Head(wav_files)))
       THEN /\ skipped_count' = skipped_count + 1
            /\ outcome' = [outcome EXCEPT ![Head(wav_files)] = "skipped"]
            /\ pc' = "loop"
            /\ UNCHANGED <<processed_count, failed_count>>
       ELSE /\ pc' = "load"
            /\ UNCHANGED <<countVars, outcome>>
    /\ UNCHANGED <<fsVars, reason, created_utc, discovered, loaded, extracted,
                   written, envFault, faults, prev>>
    /\ UNCHANGED <<preVars, auxVars>>

\* lines 278-283: the loop is over, the summary is printed.
LoopEnd ==
    /\ pc = "loop"
    /\ wav_files = <<>>
    /\ pc' = "done"
    /\ UNCHANGED <<fsVars, wav_files, wav_path, reason, created_utc, countVars,
                   discovered, outcome, loaded, extracted, written, envFault, faults, prev>>
    /\ UNCHANGED <<preVars, auxVars>>

\* lines 217-222: load_audio; torchaudio.load raises on a file it cannot decode.
LoadAudio ==
    /\ pc = "load"
    /\ loaded' = loaded \cup {wav_path}
    /\ IF corrupt[wav_path] # <<>>
       THEN reason' = corrupt[wav_path] /\ pc' = "except"
       ELSE reason' = reason /\ pc' = "extract"
    /\ UNCHANGED <<fsVars, wav_files, wav_path, created_utc, countVars,
                   discovered, outcome, extracted, written, envFault, faults, prev>>
    /\ UNCHANGED <<preVars, auxVars>>

\* line 224: extract_embedding returns an embedding or raises.
ExtractEmbedding ==
    /\ pc = "extract"
    /\ extracted' = extracted \cup {wav_path}
    /\ \/ pc' = "save" /\ UNCHANGED <<reason, envFault, faults>>
       \/ /\ CanFault
          /\ \E msg \in ExtractErrors : reason' = msg
          /\ pc' = "except"
          /\ envFault' = TRUE
          /\ faults' = faults + 1
    /\ UNCHANGED <<fsVars, wav_files, wav_path, created_utc, countVars,
                   discovered, outcome, loaded, written, prev>>
    /\ UNCHANGED <<preVars, auxVars>>

\* Slip of line 225: the error of a failed np.save is swallowed and the loop
\* body goes on to the index.
SaveEmbeddingSwallow ==
    /\ pc = "save"
    /\ \/ /\ embeddings' = [embeddings EXCEPT ![Stem(wav_path)] = "complete"]
          /\ UNCHANGED <<envFault, faults>>
       \/ /\ CanFault
          /\ embeddings' = [embeddings EXCEPT ![Stem(wav_path)] = "partial"]
          /\ envFault' = TRUE
          /\ faults' = faults + 1
    /\ written' = written \cup {Stem(wav_path)}
    /\ pc' = "index"
    /\ UNCHANGED <<corpus, txt_files, corrupt, index_csv, failures_csv, corrupted_dir,
                   wav_files, wav_path, reason, created_utc, countVars,
                   discovered, outcome, loaded, extracted, prev>>
    /\ UNCHANGED <<preVars, auxVars>>

\* line 225: np.save writes the artifact; it can fail before creating the file
\* or part-way through, and the process can be interrupted part-way through.
SaveEmbedding ==
    /\ pc = "save"
    /\ \/ /\ embeddings' = [embeddings EXCEPT ![Stem(wav_path)] = "complete"]
          /\ written' = written \cup {Stem(wav_path)}
          /\ pc' = "index"
          /\ UNCHANGED <<reason, envFault, faults>>
       \/ /\ CanFault
          /\ \E msg \in SaveErrors(Stem(wav_path)), left \in {"absent", "partial"} :
               /\ embeddings' = [embeddings EXCEPT ![Stem(wav_path)] = left]
               /\ written' = IF left = "partial" THEN written \cup {Stem(wav_path)}
                                                 ELSE written
               /\ reason' = msg
          /\ envFault' = TRUE
          /\ faults' = faults + 1
          /\ pc' = "except"
       \/ /\ CanFault
          /\ embeddings' = [embeddings EXCEPT ![Stem(wav_path)] = "partial"]
          /\ written' = written \cup {Stem(wav_path)}
          /\ envFault' = TRUE
          /\ faults' = faults + 1
          /\ pc' = "killed"
          /\ UNCHANGED reason
    /\ UNCHANGED <<corpus, txt_files, corrupt, index_csv, failures_csv, corrupted_dir,
                   wav_files, wav_path, created_utc, countVars,
                   discovered, outcome, loaded, extracted, prev>>
    /\ UNCHANGED <<preVars, auxVars>>

\* lines 227-256: the success row is appended, then processed_count is incremented.
AppendIndex ==
    /\ pc = "index"
    /\ \/ /\ index_csv' = AppendCsvRow(index_csv, "index_header",
                                       DataRow(wav_path, <<Stem(wav_path)>>, created_utc))
          /\ processed_count' = processed_count + 1
          /\ outcome' = [outcome EXCEPT ![wav_path] = "processed"]
          /\ pc' = "loop"
          /\ UNCHANGED <<reason, envFault, faults>>
       \/ /\ CanFault
          /\ \E msg \in IndexErrors : reason' = msg
          /\ \E opened \in BOOLEAN : index_csv' = AppendCsvRowFailed(index_csv, opened)
          /\ envFault' = TRUE
          /\ faults' = faults + 1
          /\ pc' = "except"
          /\ UNCHANGED <<processed_count, outcome>>
    /\ UNCHANGED <<corpus, txt_files, corrupt, embeddings, failures_csv, corrupted_dir,
                   wav_files, wav_path, created_utc, skipped_count, failed_count,
                   discovered, loaded, extracted, written, prev>>
    /\ UNCHANGED <<preVars, auxVars>>

\* safe_move_to_corrupted, lines 151-157: shutil.move to CORRUPTED_DIR / name
\* replaces a file of that name; a failed move is reported in the reason.
\* Returns [moved, reason, corpus, corrupted_dir].
SafeMoveToCorrupted(src, why, move_fails) ==
    IF ~move_fails
    THEN [moved |-> TRUE, reason |-> why, corpus |-> corpus \ {src},
          corrupted_dir |-> [corrupted_dir EXCEPT ![Name(src)] = src]]
    ELSE [moved |-> FALSE, reason |-> why \o <<"move_failed">>, corpus |-> corpus,
          corrupted_dir |-> corrupted_dir]

\* lines 258-276: the except block. The move can fail, and so can the append
\* to the failure ledger, which nothing catches.
HandleException ==
    /\ pc = "except"
    /\ failed_count' = failed_count + 1
    /\ outcome' = [outcome EXCEPT ![wav_path] = "failed"]
    /\ \E move_fails \in BOOLEAN, log_fails \in BOOLEAN, opened \in BOOLEAN :
        LET mv == IF IsDecodeClass(reason)
                  THEN SafeMoveToCorrupted(wav_path, reason, move_fails)
                  ELSE [moved |-> FALSE, reason |-> reason, corpus |-> corpus,
                        corrupted_dir |-> corrupted_dir]
            n == (IF move_fails THEN 1 ELSE 0) + (IF log_fails THEN 1 ELSE 0)
        IN /\ (move_fails => IsDecodeClass(reason))
           /\ (opened => log_fails)
           /\ faults + n <= MaxFaults
           /\ faults' = faults + n
           /\ envFault' = (envFault \/ n > 0)
           /\ corpus' = mv.corpus
           /\ corrupted_dir' = mv.corrupted_dir
           /\ reason' = mv.reason
           /\ IF ~log_fails
              THEN /\ failures_csv' = AppendCsvRow(failures_csv, "failures_header",
                                                   DataRow(wav_path, mv.reason, created_utc))
                   /\ pc' = "loop"
              ELSE /\ failures_csv' = AppendCsvRowFailed(failures_csv, opened)
                   /\ pc' = "aborted"
    /\ UNCHANGED <<txt_files, corrupt, embeddings, index_csv,
                   wav_files, wav_path, created_utc, processed_count, skipped_count,
                   discovered, loaded, extracted, written, prev>>
    /\ UNCHANGED <<preVars, auxVars>>

\* The pipeline is not running.
PipeFrozen ==
    /\ corpus = {}
    /\ txt_files = {}
    /\ corrupt = [p \in AllPaths |-> <<>>]
    /\ embeddings = [s \in Stems |-> "absent"]
    /\ index_csv = NoFile
    /\ failures_csv = NoFile
    /\ corrupted_dir = [s \in Stems |-> NoPath]
    /\ pc = "idle"
    /\ wav_files = <<>>
    /\ wav_path = NoPath
    /\ reason = <<>>
    /\ created_utc = 0
    /\ processed_count = 0
    /\ skipped_count = 0
    /\ failed_count = 0
    /\ discovered = {}
    /\ outcome = NoOutcome
    /\ loaded = {}
    /\ extracted = {}
    /\ written = {}
    /\ envFault = FALSE
    /\ faults = 0
    /\ prev = [pc |-> "idle", embeddings |-> embeddings, rows |-> 0,
               outcome |-> NoOutcome, discovered |-> {}]

AuxFrozen == OnsetFrozen /\ MetaFrozen

Init == PipeInit /\ PreFrozen /\ AuxFrozen

InitPre == PreInit /\ PipeFrozen /\ AuxFrozen

InitOnset == OnsetInit /\ PipeFrozen /\ PreFrozen /\ MetaFrozen

InitMeta == MetaInit /\ PipeFrozen /\ PreFrozen /\ OnsetFrozen

Next ==
    \/ StartRun
    \/ LoopNext
    \/ LoopEnd
    \/ LoadAudio
    \/ ExtractEmbedding
    \/ SaveEmbedding
    \/ AppendIndex
    \/ HandleException

Spec == Init /\ [][Next]_vars

NextPre ==
    \/ PreprocessStart
    \/ WalkNextDir
    \/ WalkEnd
    \/ SkipFile
    \/ ProcessFile

SpecPre == InitPre /\ [][NextPre]_vars

NextOnset == DetectSpeechStartCall

SpecOnset == InitOnset /\ [][NextOnset]_vars

NextMeta ==
    \/ MetaLoad
    \/ MetaEnrich

SpecMeta == InitMeta /\ [][NextMeta]_vars

----------------------------------------------------------------------------
\* Observations used by the properties.
IndexRows == DataRows(index_csv)
FailureRows == DataRows(failures_csv)
RunFinished == pc = "done"
AtLoopHead == pc = "loop" /\ wav_files # <<>>
Quarantined == {s \in Stems : corrupted_dir[s] # NoPath}
Complete == {s \in Stems : embeddings[s] = "complete"}

\* C1: a file whose artifact <stem>.npy exists (finished or not) when the loop
\* reaches it is counted as skipped and nothing else changes: it is not
\* loaded, not extracted, no artifact, ledger row or source file is touched.
C1_SkipChangesNothing ==
    [][ (AtLoopHead /\ embeddings[Stem(Head(wav_files))] # "absent")
        => /\ skipped_count' = skipped_count + 1
           /\ outcome'[Head(wav_files)] = "skipped"
           /\ pc' = "loop"
           /\ UNCHANGED <<fsVars, processed_count, failed_count,
                          loaded, extracted, written>> ]_vars

C1_Witness ==
    \E p \in discovered :
        /\ outcome[p] = "skipped"
        /\ embeddings[Stem(p)] # "absent"
        /\ skipped_count > 0

C3_NoSpeechKeepsSource ==
    p_last.error = "nospeech" => p_tree[<<InputDir, p_last.stem, "mp3">>] # NoContent

\* C4: when a file fails with a decode-class error and neither the move nor
\* the failure row fails, the source file and its same-stem .txt sibling have both left the
\* corpus after the step, the source file being in the quarantine directory.
C4_DecodeFailureMovesSibling ==
    [][ (pc = "except" /\ IsDecodeClass(reason) /\ reason' = reason /\ pc' = "loop")
        => /\ wav_path \notin corpus'
           /\ corrupted_dir'[Name(wav_path)] = wav_path
           /\ wav_path \notin txt_files' ]_vars

\* C5: an error raised after the audio was loaded (by the extractor, by the
\* artifact write or by the index append) never moves the source file: it is
\* still in the corpus after the except block, nothing was quarantined and
\* one failure row was appended.
C5_LaterFailureLeavesSource ==
    [][ (pc = "except" /\ wav_path \in extracted /\ pc' = "loop")
        => /\ wav_path \in corpus'
           /\ corrupted_dir' = corrupted_dir
           /\ Len(DataRows(failures_csv')) = Len(DataRows(failures_csv)) + 1 ]_vars

\* C6: no per-file error aborts the batch: a run that was started and not
\* interrupted never ends in an uncaught exception, and when it ends every
\* discovered file is counted as exactly one of processed, skipped, failed.
C6_NoErrorAbortsBatch ==
    /\ pc # "aborted"
    /\ RunFinished
        => /\ \A p \in discovered : outcome[p] # "none"
           /\ processed_count + skipped_count + failed_count = Cardinality(discovered)

\* C7: a first run (no artifacts beforehand) without extractor, disk or move
\* faults over k undecodable and n valid files ends with n artifacts, n success
\* rows, k quarantined files and k failure rows. The undecodable files are
\* taken to be those whose error line 264 recognises.
C7_PartialFailureIsolation ==
    (/\ RunFinished /\ created_utc = 1 /\ ~envFault
     /\ \A p \in discovered : corrupt[p] # <<>> => IsDecodeClass(corrupt[p]))
        => LET k == Cardinality({p \in discovered : corrupt[p] # <<>>})
               n == Cardinality(discovered) - k
           IN /\ Cardinality(Complete) = n
              /\ Cardinality({s \in Stems : embeddings[s] # "absent"}) = n
              /\ Len(IndexRows) = n
              /\ Cardinality(Quarantined) = k
              /\ Len(FailureRows) = k

\* C8: within one run no stem has both an artifact written in this run and a
\* failure row appended in this run.
C8_ArtifactOrFailureRow ==
    \A s \in Stems :
        ~ /\ s \in written
          /\ embeddings[s] = "complete"
          /\ \E i \in 1..Len(FailureRows) :
                /\ FailureRows[i].utc = created_utc
                /\ Stem(FailureRows[i].path) = s

\* C9: write-then-index: every success row refers to a completely written
\* artifact; a failed or interrupted write leaves no success row for the stem.
C9_IndexedArtifactsAreComplete ==
    \A i \in 1..Len(IndexRows) : embeddings[Stem(IndexRows[i].path)] = "complete"

C9_Witness ==
    /\ \E s \in Stems :
        /\ embeddings[s] = "partial"
        /\ s \in written
        /\ \A i \in 1..Len(IndexRows) : Stem(IndexRows[i].path) # s
    /\ Len(IndexRows) > 0
    /\ pc \in {"loop", "done", "killed"}

\* C10: a file that failed in a complete run and was left in the corpus, and
\* that does not fail in the next complete run, is loaded, extracted and
\* indexed by that run: it ends with a complete artifact and a success row of
\* that run.
C10_FailureNeverBlocksRetry ==
    (RunFinished /\ created_utc >= 2 /\ prev.pc = "done")
        => \A p \in discovered :
            (prev.outcome[p] = "failed" /\ outcome[p] # "failed")
                => /\ outcome[p] = "processed"
                   /\ p \in loaded /\ p \in extracted
                   /\ embeddings[Stem(p)] = "complete"
                   /\ \E i \in 1..Len(IndexRows) :
                        IndexRows[i].path = p /\ IndexRows[i].utc = created_utc

----------------------------------------------------------------------------
\* detect_speech_start, observed through SpecOnset.

\* the offset of the first segment from the cut, in ms
RelativeStartMs(start) == (start * 1000) \div SampleRate

\* the windows whose first segment starts more than 1000 ms after the cut
AcceptableWindows ==
    {t \in Windows(o_args) : o_vad[t] # NoSegments
                              /\ RelativeStartMs(o_vad[t]) > MinAcceptedOffsetMs}

\* every skip value from initial_skip_ms up to max_skip_ms, in steps of step_ms
ExpectedScan ==
    [i \in 1..Cardinality(Windows(o_args)) |-> o_args[1] + (i - 1) * o_args[3]]

----------------------------------------------------------------------------
\* The ledgers of 03_extract_embeddings_new.py.

\* the data rows of both ledgers that name the file p
RowsOf(p) ==
    Cardinality({i \in 1..Len(IndexRows) : IndexRows[i].path = p})
    + Cardinality({i \in 1..Len(FailureRows) : FailureRows[i].path = p})

\* C13: a first run (no artifacts beforehand) over N distinct files, in the
\* root or in subdirectories, that runs to its end leaves exactly N data rows
\* over the success index and the failure ledger together, one for each file.
C13_OneRowPerFile ==
    (RunFinished /\ created_utc = 1)
        => /\ Len(IndexRows) + Len(FailureRows) = Cardinality(discovered)
           /\ \A p \in discovered : RowsOf(p) = 1

\* C14: a ledger that holds data rows starts with its header row and holds no
\* other header row, after any sequence of appends over any number of runs.
C14_SingleHeaderFirst ==
    \A csv \in {index_csv, failures_csv} :
        DataRows(csv) # <<>>
            => /\ csv.rows[1].kind = "header"
               /\ \A i \in 2..Len(csv.rows) : csv.rows[i].kind = "data"

\* C15: the metadata is never fatal: whatever is at the metadata path (nothing,
\* text that is not JSON, a value that is not an array, an array with entries
\* of any shape) load_optional_metadata returns a table without raising and
\* the run goes on; a stem without an entry gets empty strings for continent,
\* country, speaker and audio_url.
C15_MetadataNeverFatal ==
    /\ m_pc # "crashed"
    /\ (m_pc = "enriched" /\ m_table[m_stem] = NoItem)
        => \A f \in MetaFields : m_fields[f] = ""

----------------------------------------------------------------------------
\* The walk of 02_preprocess_audio.py.

\* C16: every .mp3 name the walk lists, at any depth, is opened, trimmed and
\* (on failure) moved at the path of the directory it was listed in, where the
\* file resides.
C16_HandledWhereItResides ==
    p_last.stem # "" => p_last.path = <<p_last.dir, p_last.stem, "mp3">>

\* C18: a quarantined file is never a work item again, in the same run or a
\* later one: no name listed in corrupted_dir is handled; and a run over a
\* corpus whose files are all directly in input_dir ends normally.
C18_QuarantineNotRewalked ==
    /\ p_last.stem # "" => p_last.dir # CorruptedDir
    /\ FilesIn(SubDir) = {} => p_pc # "crashed"

----------------------------------------------------------------------------
\* The counters and the quarantine of 03_extract_embeddings_new.py.

\* the data rows a ledger got in the current run
RowsOfRun(rows) == Cardinality({i \in 1..Len(rows) : rows[i].utc = created_utc})

\* C17: between iterations and when the run has ended (normally or by an
\* uncaught exception), processed + skipped + failed is the number of files
\* taken from the list so far, at the normal end the number of discovered
\* files; processed_count is the number of success rows and failed_count the
\* number of failure rows appended in this run.
C17_CountersMatchLedgers ==
    pc \in {"loop", "done", "aborted"}
        => /\ processed_count + skipped_count + failed_count
                = Cardinality(discovered) - Len(wav_files)
           /\ RunFinished
                => processed_count + skipped_count + failed_count = Cardinality(discovered)
           /\ processed_count = RowsOfRun(IndexRows)
           /\ failed_count = RowsOfRun(FailureRows)

\* C19: every source file a failure row reports as moved (a decode-class
\* reason without move error) is present in the quarantine directory
\* afterwards, whatever was quarantined later: no move replaces a file
\* quarantined earlier.
C19_QuarantineKeepsEveryFile ==
    \A i \in 1..Len(FailureRows) :
        (IsDecodeClass(FailureRows[i].info) /\ ~Contains(FailureRows[i].info, "move_failed"))
            => corrupted_dir[Name(FailureRows[i].path)] = FailureRows[i].path

====
